---------------------------- MODULE Spec2Model ----------------------------
(***************************************************************************)
(* A model of the example domain src/src/domains/simple.rs: the SimpleVal  *)
(* value type, the From/Into coercions, the symbol resolvers val_of_prim   *)
(* and fn_of_prim, and the DSL functions add, mul, map and sum.            *)
(*                                                                         *)
(* Representation.  Every value is a tuple whose first component is a tag: *)
(*   Dom(Int(i))        <<"Dom", "Int", i>>                                *)
(*   Dom(List(v))       <<"Dom", "List", v>>      v a sequence of Vals     *)
(*   PrimFun(name, n)   <<"PrimFun", name, n>>    a registered operator    *)
(*   LamClosure(id)     <<"LamClosure", id>>      a host-owned function    *)
(*   Some(v) / None     <<"Some", v>> / <<"None">>                         *)
(*   Ok(v) / Err(e)     <<"Ok", v>> / <<"Err", e>>                         *)
(*   a panic            <<"panic", message>>                               *)
(* A Symbol is the sequence of its characters, each a one-character        *)
(* string.  An i32 is an integer in I32Min..I32Max; the arithmetic below   *)
(* never leaves that range, whatever the operands.                         *)
(***************************************************************************)
EXTENDS Integers, Sequences, FiniteSets, TLC

\* ------------------------------------------------------------------ i32

I32Max == 2147483647
I32Min == -I32Max - 1

\* x + y does not fit in an i32.
AddOverflows(x, y) ==
    \/ y > 0 /\ x > I32Max - y
    \/ y < 0 /\ x < I32Min - y

\* i32::wrapping_add: x + y modulo 2^32, taken in I32Min..I32Max.
WrappingAdd(x, y) ==
    IF y > 0 /\ x > I32Max - y THEN (x - I32Max - 1) + (y - I32Max - 1)
    ELSE IF y < 0 /\ x < I32Min - y THEN (x + I32Max + 1) + (y + I32Max + 1)
    ELSE x + y

\* 2^31 \div x for x > 0, computed inside the i32 range.
TwoTo31Div(x) == (I32Max \div x) + (IF I32Max % x = x - 1 THEN 1 ELSE 0)

\* x * y does not fit in an i32.
MulOverflows(x, y) ==
    IF x = 0 \/ y = 0 \/ x = 1 \/ y = 1 THEN FALSE
    ELSE IF x > 0 /\ y > 0 THEN x > I32Max \div y
    ELSE IF x > 0 /\ y < 0 THEN
        \* x * y >= -2^31  iff  -y <= 2^31 \div x
        IF y = I32Min THEN x > 1 ELSE (-y) > TwoTo31Div(x)
    ELSE IF x < 0 /\ y > 0 THEN
        IF x = I32Min THEN y > 1 ELSE (-x) > TwoTo31Div(y)
    ELSE \* both negative
        IF x = I32Min \/ y = I32Min THEN TRUE ELSE (-x) > I32Max \div (-y)

\* i32::wrapping_mul: x * y modulo 2^32, taken in I32Min..I32Max.  With
\* x = xh * 2^16 + xl and y = yh * 2^16 + yl (0 <= xl, yl < 2^16), the low
\* 32 bits of the product are those of (xh*yl + xl*yh) * 2^16 + xl*yl; the
\* last product is taken a byte of xl at a time so that no intermediate
\* value leaves the i32 range.
WrappingMul(x, y) ==
    LET xh == x \div 65536
        xl == x % 65536
        yh == y \div 65536
        yl == y % 65536
        p1 == (xl \div 256) * yl
        q  == ((p1 % 256) * 256) + ((xl % 256) * yl)
        lo == q % 65536
        hi == (((xh * yl) % 65536) + ((xl * yh) % 65536)
                 + (p1 \div 256) + (q \div 65536)) % 65536
    IN  IF hi >= 32768 THEN ((hi - 65536) * 65536) + lo
        ELSE (hi * 65536) + lo

\* --------------------------------------------------------------- values

VARIABLES
    overflow_checks,  \* the build profile: TRUE when `+`/`*` on i32 panic on overflow
    PRIMS,            \* the registry's value table   (symbol -> Val)
    FUNCS,            \* the registry's function table (symbol -> DSL function)
    op,               \* the entry point called last ("" before any call)
    args,             \* what it was called with
    res,              \* what the call produced
    pc,               \* "idle", or "map" while map is iterating
    fn_val,           \* map: the function value loaded from args
    xs,               \* map: the list loaded from args
    idx,              \* map: how many elements the iterator has yielded
    out,              \* map: the results collected so far
    applied           \* map: the log of handle.apply calls, <<index, result>>

vars == <<overflow_checks, PRIMS, FUNCS, op, args, res,
          pc, fn_val, xs, idx, out, applied>>

\* SimpleVal and domain::Val
DomInt(i) == <<"Dom", "Int", i>>
DomList(v) == <<"Dom", "List", v>>
PrimFun(name, arity) == <<"PrimFun", name, arity>>
LamClosure(id) == <<"LamClosure", id>>

IsDomInt(v) == v[1] = "Dom" /\ v[2] = "Int"
IsDomList(v) == v[1] = "Dom" /\ v[2] = "List"

\* Option, Result, and the two ways a Rust call ends without a value
None == <<"None">>
Some(v) == <<"Some", v>>
Ok(v) == <<"Ok", v>>
Err(e) == <<"Err", e>>
Panic(msg) == <<"panic", msg>>
Ret(h) == <<"ret", h>>

IsOk(r) == r[1] = "Ok"
IsErr(r) == r[1] = "Err"
IsPanic(r) == r[1] = "panic"

\* Host types: i32, Vec<T>, and Val itself (From<Val> for Val is the identity).
TyI32 == <<"i32">>
TyVal == <<"Val">>
TyVec(t) == <<"Vec", t>>

\* ------------------------------------------------------------- coercion

\* A variant of From<Val> for i32 that answers 0 for a value that is no
\* integer, instead of panicking.
FromValI32Lenient(v) == IF IsDomInt(v) THEN Ret(v[3]) ELSE Ret(0)

\* impl From<Val> for i32
FromValI32(v) ==
    IF IsDomInt(v) THEN Ret(v[3])
    ELSE Panic("from_val_to_i32: not an int")

\* impl From<Val> for Vec<T>, and the identity on Val.  The elements are
\* converted in order; the first one that panics ends the conversion.
RECURSIVE FromVal(_, _)
RECURSIVE FromElems(_, _, _)
FromElems(t, vs, acc) ==
    IF vs = <<>> THEN Ret(acc)
    ELSE LET r == FromVal(t, Head(vs))
         IN  IF IsPanic(r) THEN r
             ELSE FromElems(t, Tail(vs), Append(acc, r[2]))

FromValVec(t, v) ==
    IF IsDomList(v) THEN FromElems(t, v[3], <<>>)
    ELSE Panic("from_val_to_vec: not a list")

FromVal(ty, v) ==
    IF ty[1] = "i32" THEN FromValI32(v)
    ELSE IF ty[1] = "Vec" THEN FromValVec(ty[2], v)
    ELSE Ret(v)

\* impl Into<Val> for i32
IntoValI32(i) == DomInt(i)

RECURSIVE IntoVal(_, _)

\* A variant of Into<Val> for Vec<T> that wraps the elements last to first.
IntoValVecReversed(t, h) ==
    DomList([k \in 1..Len(h) |-> IntoVal(t, h[Len(h) + 1 - k])])

\* impl Into<Val> for Vec<T>, and the identity on Val
IntoValVec(t, h) == DomList([k \in 1..Len(h) |-> IntoVal(t, h[k])])

IntoVal(ty, h) ==
    IF ty[1] = "i32" THEN IntoValI32(h)
    ELSE IF ty[1] = "Vec" THEN IntoValVec(ty[2], h)
    ELSE h

\* load_args!(args, n1: T1, ..., nk: Tk): the arguments converted in order
\* with .into(); Ret(<<h1, ..., hk>>), or the first conversion's panic.
RECURSIVE load_args(_, _, _)
load_args(as, tys, acc) ==
    IF tys = <<>> THEN Ret(acc)
    ELSE LET r == FromVal(Head(tys), Head(as))
         IN  IF IsPanic(r) THEN r
             ELSE load_args(Tail(as), Tail(tys), Append(acc, r[2]))

\* ok(v) is Ok(v.into())
ok(ty, h) == Ok(IntoVal(ty, h))

\* -------------------------------------------------------- DSL functions

\* `x + y` on i32: with overflow checks (the default of a debug build) an
\* overflow panics, without them (the default of a release build) it wraps.
AddI32(x, y) ==
    IF AddOverflows(x, y) /\ overflow_checks
    THEN Panic("attempt to add with overflow")
    ELSE Ret(WrappingAdd(x, y))

\* `x * y` on i32, likewise.
MulI32(x, y) ==
    IF MulOverflows(x, y) /\ overflow_checks
    THEN Panic("attempt to multiply with overflow")
    ELSE Ret(WrappingMul(x, y))

add(as) ==
    LET la == load_args(as, <<TyI32, TyI32>>, <<>>)
    IN  IF IsPanic(la) THEN la
        ELSE LET r == AddI32(la[2][1], la[2][2])
             IN  IF IsPanic(r) THEN r ELSE ok(TyI32, r[2])

mul(as) ==
    LET la == load_args(as, <<TyI32, TyI32>>, <<>>)
    IN  IF IsPanic(la) THEN la
        ELSE LET r == MulI32(la[2][1], la[2][2])
             IN  IF IsPanic(r) THEN r ELSE ok(TyI32, r[2])

\* A variant of the fold that wraps on overflow whatever the build.
RECURSIVE IterSumWrapping(_, _)
IterSumWrapping(acc, it) ==
    IF it = <<>> THEN Ret(acc)
    ELSE IterSumWrapping(WrappingAdd(acc, Head(it)), Tail(it))

\* Iterator::sum::<i32>(): fold(0, |a, b| a + b), the `+` inheriting the
\* caller's overflow checks.
RECURSIVE IterSum(_, _)
IterSum(acc, it) ==
    IF it = <<>> THEN Ret(acc)
    ELSE LET r == AddI32(acc, Head(it))
         IN  IF IsPanic(r) THEN r ELSE IterSum(r[2], Tail(it))

sum(as) ==
    LET la == load_args(as, <<TyVec(TyI32)>>, <<>>)
    IN  IF IsPanic(la) THEN la
        ELSE LET r == IterSum(0, la[2][1])
             IN  IF IsPanic(r) THEN r ELSE ok(TyI32, r[2])

\* -------------------------------------------------------------- parsing

Digits == {"0", "1", "2", "3", "4", "5", "6", "7", "8", "9"}

DigitValue ==
    "0" :> 0 @@ "1" :> 1 @@ "2" :> 2 @@ "3" :> 3 @@ "4" :> 4 @@
    "5" :> 5 @@ "6" :> 6 @@ "7" :> 7 @@ "8" :> 8 @@ "9" :> 9

\* char::is_digit(10)
is_digit(c) == c \in Digits

\* The digit loop of i32::from_str: result = result * 10 (+|-) digit, each
\* step checked.
RECURSIVE ParseDigits(_, _, _)
ParseDigits(ds, acc, positive) ==
    IF ds = <<>> THEN Ok(acc)
    ELSE IF ~is_digit(Head(ds)) THEN Err("InvalidDigit")
    ELSE IF MulOverflows(acc, 10)
         THEN Err(IF positive THEN "PosOverflow" ELSE "NegOverflow")
    ELSE LET d == DigitValue[Head(ds)]
             m == acc * 10
         IN  IF positive
             THEN IF AddOverflows(m, d) THEN Err("PosOverflow")
                  ELSE ParseDigits(Tail(ds), m + d, positive)
             ELSE IF AddOverflows(m, -d) THEN Err("NegOverflow")
                  ELSE ParseDigits(Tail(ds), m - d, positive)

\* str::parse::<i32>(): an optional sign, then one or more decimal digits,
\* the value in range; the whole text or nothing.
ParseI32(s) ==
    IF s = <<>> THEN Err("Empty")
    ELSE IF Head(s) \in {"+", "-"} /\ Len(s) = 1 THEN Err("InvalidDigit")
    ELSE IF Head(s) = "+" THEN ParseDigits(Tail(s), 0, TRUE)
    ELSE IF Head(s) = "-" THEN ParseDigits(Tail(s), 0, FALSE)
    ELSE ParseDigits(s, 0, TRUE)

\* serde_json: the byte at position i, "" past the end of the input.
Peek(s, i) == IF i <= Len(s) THEN s[i] ELSE ""

JsonWhitespace == {" ", "\n", "\t", "\r"}

\* Deserializer::parse_whitespace: the first position at or after i that
\* holds no whitespace.
RECURSIVE SkipWs(_, _)
SkipWs(s, i) == IF Peek(s, i) \in JsonWhitespace THEN SkipWs(s, i + 1) ELSE i

\* The significand serde_json accumulates is a u64 (a float once it
\* overflows); an i32 element only tells three cases apart: at most
\* i32::MAX (kept exactly), exactly 2^31 (-2^31 is an i32), anything larger.
SigSmall(n) == <<"small", n>>
SigTwoTo31 == <<"two31", 0>>
SigLarge == <<"large", 0>>

SigPush(sig, d) ==
    IF sig[1] # "small" THEN SigLarge
    ELSE IF MulOverflows(sig[2], 10) THEN SigLarge
    ELSE IF ~AddOverflows(sig[2] * 10, d) THEN SigSmall(sig[2] * 10 + d)
    ELSE IF d - 1 = I32Max - sig[2] * 10 THEN SigTwoTo31
    ELSE SigLarge

\* Deserializer::parse_number, then the i32 visitor: a fraction or an
\* exponent makes a float, which the visitor refuses; so are -0 (a float),
\* and an integer outside the i32 range.  <<"Ok", n, next>> or <<"Err">>.
ParseNumber(s, i, positive, sig) ==
    IF Peek(s, i) \in {".", "e", "E"} THEN <<"Err">>
    ELSE IF positive
         THEN IF sig[1] = "small" THEN <<"Ok", sig[2], i>> ELSE <<"Err">>
    ELSE IF sig[1] = "small"
         THEN IF sig[2] = 0 THEN <<"Err">> ELSE <<"Ok", -sig[2], i>>
    ELSE IF sig[1] = "two31" THEN <<"Ok", I32Min, i>>
    ELSE <<"Err">>

RECURSIVE ParseIntegerDigits(_, _, _, _)
ParseIntegerDigits(s, i, positive, sig) ==
    IF is_digit(Peek(s, i))
    THEN ParseIntegerDigits(s, i + 1, positive, SigPush(sig, DigitValue[s[i]]))
    ELSE ParseNumber(s, i, positive, sig)

\* Deserializer::parse_integer: 0 not followed by a digit, or 1-9 and more
\* digits.
ParseInteger(s, i, positive) ==
    IF Peek(s, i) = "0"
    THEN IF is_digit(Peek(s, i + 1)) THEN <<"Err">>
         ELSE ParseNumber(s, i + 1, positive, SigSmall(0))
    ELSE IF is_digit(Peek(s, i))
    THEN ParseIntegerDigits(s, i + 1, positive, SigSmall(DigitValue[s[i]]))
    ELSE <<"Err">>

\* Deserializer::deserialize_i32 at position i (whitespace skipped).
DeserializeI32(s, i) ==
    IF Peek(s, i) = "-" THEN ParseInteger(s, i + 1, FALSE)
    ELSE IF is_digit(Peek(s, i)) THEN ParseInteger(s, i, TRUE)
    ELSE <<"Err">>

\* Deserializer::end: only whitespace may follow the value.
JsonEnd(s, i, acc) ==
    IF SkipWs(s, i) = Len(s) + 1 THEN Ok(acc) ELSE Err("TrailingCharacters")

\* SeqAccess::next_element_seed in a loop (VecVisitor::visit_seq), then
\* end_seq and end.
RECURSIVE SeqElements(_, _, _, _)
SeqElements(s, i, first, acc) ==
    LET j == SkipWs(s, i)
        c == Peek(s, j)
        k == IF c = "," /\ ~first THEN SkipWs(s, j + 1) ELSE j
        e == DeserializeI32(s, k)
    IN  IF c = "]" THEN JsonEnd(s, j + 1, acc)
        ELSE IF c = "" THEN Err("EofWhileParsingList")
        ELSE IF c # "," /\ ~first THEN Err("ExpectedListCommaOrEnd")
        ELSE IF Peek(s, k) = "]" THEN Err("TrailingComma")
        ELSE IF Peek(s, k) = "" THEN Err("EofWhileParsingValue")
        ELSE IF e[1] = "Err" THEN Err("InvalidElement")
        ELSE SeqElements(s, e[3], FALSE, Append(acc, e[2]))

\* serde_json::from_str::<Vec<i32>>()
FromStrVecI32(s) ==
    LET i == SkipWs(s, 1)
    IN  IF Peek(s, i) = "[" THEN SeqElements(s, i + 1, TRUE, <<>>)
        ELSE Err("InvalidType")

\* ------------------------------------------------------------- registry

\* define_semantics! { "+" = (add, 2), "*" = (mul, 2), "map" = (map, 2),
\* "sum" = (sum, 1) }: symbol, function, arity.
semantics ==
    << << <<"+">>,           "add", 2 >>,
       << <<"*">>,           "mul", 2 >>,
       << <<"m", "a", "p">>, "map", 2 >>,
       << <<"s", "u", "m">>, "sum", 1 >> >>

Registered == {semantics[k][1] : k \in 1..Len(semantics)}

RowOf(p) == semantics[CHOOSE k \in 1..Len(semantics) : semantics[k][1] = p]

\* The two tables the macro generates: PRIMS holds, for each symbol, the
\* function value with its arity; FUNCS the function it is bound to.
BuildPRIMS == [p \in Registered |-> PrimFun(p, RowOf(p)[3])]
BuildFUNCS == [p \in Registered |-> RowOf(p)[2]]

\* ------------------------------------------------------------ resolvers

\* A variant of val_of_prim that parses literals and never looks the
\* symbol up in PRIMS.
val_of_prim_literals_only(p) ==
    IF p = <<>> THEN Panic("called Option::unwrap() on a None value")
    ELSE IF is_digit(Head(p))
         THEN LET i == ParseI32(p)
              IN  IF IsOk(i) THEN Some(DomInt(i[2])) ELSE None
    ELSE IF Head(p) = "["
         THEN LET intvec == FromStrVecI32(p)
              IN  IF IsOk(intvec)
                  THEN Some(DomList([k \in 1..Len(intvec[2]) |->
                                        DomInt(intvec[2][k])]))
                  ELSE None
    ELSE None

\* Domain::val_of_prim
val_of_prim(p) ==
    IF p \in DOMAIN PRIMS THEN Some(PRIMS[p])
    ELSE IF p = <<>>
         THEN Panic("called Option::unwrap() on a None value")
    ELSE IF is_digit(Head(p))
         THEN LET i == ParseI32(p)
              IN  IF IsOk(i) THEN Some(DomInt(i[2])) ELSE None
    ELSE IF Head(p) = "["
         THEN LET intvec == FromStrVecI32(p)
              IN  IF IsOk(intvec)
                  THEN Some(DomList([k \in 1..Len(intvec[2]) |->
                                        DomInt(intvec[2][k])]))
                  ELSE None
    ELSE None

\* A variant of fn_of_prim with a dynamic fallback: a symbol that
\* val_of_prim resolves is answered with a constant function.
fn_of_prim_with_fallback(p) ==
    IF p \in DOMAIN FUNCS THEN Some(FUNCS[p])
    ELSE IF p # <<>> /\ val_of_prim(p) # None THEN Some("const")
    ELSE None

\* Domain::fn_of_prim
fn_of_prim(p) == IF p \in DOMAIN FUNCS THEN Some(FUNCS[p]) ELSE None

\* ------------------------------------------------- handle.apply

\* handle.apply(f, x), as the host evaluator answers it: one outcome for a
\* function whose body is known, any of several for an opaque one.
ApplyOutcomes(f, x) ==
    IF f = LamClosure("double")
    THEN IF IsDomInt(x) THEN {Ok(DomInt(WrappingMul(x[3], 2)))}
         ELSE {Err(<<"double: not an int", x>>)}
    ELSE IF f = LamClosure("opaque")
    THEN {Ok(x), Ok(DomList(<<x>>)), Err(<<"evaluation failed", x>>)}
    ELSE {Err(<<"not a function", f>>)}

\* --------------------------------------------------------------- inputs

MaxSymLen == 4     \* symbols of every length up to this one are resolved
MaxListLen == 3    \* the longest list given to sum and to map
MaxNestLen == 2    \* the longest list, at each level, given to the coercions

SeqsUpTo(S, n) == UNION {[1..k -> S] : k \in 0..n}

Alphabet == {"0", "1", "2", "-", "+", "[", "]", ",", " ", "a"}

\* Longer symbols: the registered ones, and literals at and around the
\* edges of the two literal grammars.
Corpus ==
    Registered \cup
    { <<"4", "2">>,
      <<"0", "0", "7">>,
      <<"1", "2", "a">>,
      <<"2", "1", "4", "7", "4", "8", "3", "6", "4", "7">>,
      <<"2", "1", "4", "7", "4", "8", "3", "6", "4", "8">>,
      <<"-", "5">>,
      <<"+", "5">>,
      <<"-", "2", "1", "4", "7", "4", "8", "3", "6", "4", "8">>,
      <<"f", "o", "o">>,
      <<"[", "1", ",", "2", ",", "3", "]">>,
      <<"[", "1", ",", "2">>,
      <<"[", "[", "1", "]", "]">>,
      <<"[", "1", ",", " ", "2", "]">>,
      <<"[", "3", ",", "-", "2", ",", "1", "]">>,
      <<"[", "1", ".", "0", "]">>,
      <<"[", "1", "e", "2", "]">>,
      <<"[", "-", "0", "]">>,
      <<"[", "0", "1", "]">>,
      <<"[", "1", ",", "2", ",", "]">>,
      <<"[", "1", ",", "2", "]", "x">>,
      <<"[", "2", "1", "4", "7", "4", "8", "3", "6", "4", "7", "]">>,
      <<"[", "2", "1", "4", "7", "4", "8", "3", "6", "4", "8", "]">>,
      <<"[", "-", "2", "1", "4", "7", "4", "8", "3", "6", "4", "8", "]">>,
      <<"[", "-", "2", "1", "4", "7", "4", "8", "3", "6", "4", "9", "]">> }


I32Samples ==
    {I32Min, I32Min + 1, -65536, -2, -1, 0, 1, 2, 3, 46341, 65536,
     I32Max - 1, I32Max}

SumSamples == {I32Min, -1, 0, 1, 2, 3, I32Max}
NestSamples == {I32Min, I32Max}

\* The decimal text of an integer, as Rust's Display writes it, and the
\* text of a list of integers as a JSON array without whitespace.
DigitChar(d) == CHOOSE c \in Digits : DigitValue[c] = d

RECURSIVE DecimalNat(_)
DecimalNat(n) ==
    IF n < 10 THEN <<DigitChar(n)>>
    ELSE Append(DecimalNat(n \div 10), DigitChar(n % 10))

\* The digits of -n for n < 0, without negating n.
RECURSIVE DecimalOfNeg(_)
DecimalOfNeg(n) ==
    LET d == (10 - (n % 10)) % 10
        rest == (n + d) \div 10
    IN  IF rest = 0 THEN <<DigitChar(d)>>
        ELSE Append(DecimalOfNeg(rest), DigitChar(d))

Decimal(n) == IF n >= 0 THEN DecimalNat(n) ELSE <<"-">> \o DecimalOfNeg(n)

RECURSIVE RenderElems(_)
RenderElems(v) ==
    IF v = <<>> THEN <<>>
    ELSE IF Len(v) = 1 THEN Decimal(v[1])
    ELSE Decimal(v[1]) \o <<",">> \o RenderElems(Tail(v))

RenderList(v) == <<"[">> \o RenderElems(v) \o <<"]">>

LiteralSamples == {I32Min, -1, 0, 12, I32Max}
LiteralLists == SeqsUpTo(LiteralSamples, MaxListLen)

\* The texts of the sample integers and of the sample lists.
DecimalTexts == {Decimal(n) : n \in I32Samples}
ListTexts == {RenderList(v) : v \in LiteralLists}

Symbols == SeqsUpTo(Alphabet, MaxSymLen) \cup Corpus \cup DecimalTexts \cup ListTexts

\* Values of the wrong shape for one host type or another.
IllTyped ==
    {DomList(<<>>), DomList(<<DomInt(1)>>), LamClosure("double"),
     PrimFun(<<"+">>, 2)}

MixedElems ==
    {DomInt(I32Min), DomInt(I32Max), LamClosure("double"), DomList(<<>>),
     DomList(<<DomInt(I32Max)>>), DomList(<<LamClosure("double")>>)}

MixedVals ==
    {DomInt(I32Max), LamClosure("double"), PrimFun(<<"+">>, 2)}
    \cup {DomList(v) : v \in SeqsUpTo(MixedElems, MaxNestLen)}

ArithArgs ==
    LET V == {DomInt(n) : n \in I32Samples} \cup IllTyped
    IN  {<<x, y>> : x \in V, y \in V}

SumArgs ==
    {<<DomList(v)>> : v \in SeqsUpTo({DomInt(n) : n \in SumSamples}, MaxListLen)}
    \cup {<<v>> : v \in MixedVals}

MapElems == {DomInt(1), DomInt(2), DomInt(3), DomList(<<>>)}

MapArgs ==
    {<<f, DomList(v)>> :
        f \in {LamClosure("double"), LamClosure("opaque"), DomInt(1)},
        v \in SeqsUpTo(MapElems, MaxListLen)}
    \cup {<<LamClosure("double"), v>> : v \in {DomInt(1), LamClosure("opaque")}}

RoundTripTypes == {TyI32, TyVec(TyI32), TyVec(TyVec(TyI32))}
CoerceTypes == RoundTripTypes \cup {TyVal, TyVec(TyVal)}

\* The host values of a type.
RECURSIVE HostVals(_)
HostVals(ty) ==
    IF ty = TyI32 THEN I32Samples
    ELSE IF ty = TyVec(TyI32) THEN SeqsUpTo(NestSamples, MaxNestLen)
    ELSE SeqsUpTo(HostVals(ty[2]), MaxNestLen)

\* ------------------------------------------------------------- machine

NoResult == <<"-">>

Init ==
    /\ overflow_checks \in BOOLEAN
    /\ PRIMS = BuildPRIMS
    /\ FUNCS = BuildFUNCS
    /\ op = ""
    /\ args = <<>>
    /\ res = NoResult
    /\ pc = "idle"
    /\ fn_val = <<>>
    /\ xs = <<>>
    /\ idx = 0
    /\ out = <<>>
    /\ applied = <<>>

mapVars == <<fn_val, xs, idx, out, applied>>
tables == <<overflow_checks, PRIMS, FUNCS>>

\* A call that runs to its end in one step: it returns, or it panics.
Finish(name, a, r) ==
    /\ op' = name
    /\ args' = a
    /\ res' = r
    /\ pc' = IF IsPanic(r) THEN "panicked" ELSE "done"
    /\ UNCHANGED <<tables, mapVars>>

ValOfPrim ==
    /\ pc = "idle"
    /\ \E p \in Symbols : Finish("val_of_prim", p, val_of_prim(p))

FnOfPrim ==
    /\ pc = "idle"
    /\ \E p \in Symbols : Finish("fn_of_prim", p, fn_of_prim(p))

CallAdd ==
    /\ pc = "idle"
    /\ \E a \in ArithArgs : Finish("add", a, add(a))

CallMul ==
    /\ pc = "idle"
    /\ \E a \in ArithArgs : Finish("mul", a, mul(a))

CallSum ==
    /\ pc = "idle"
    /\ \E a \in SumArgs : Finish("sum", a, sum(a))

\* v.into() for a host value v of type ty
CallInto ==
    /\ pc = "idle"
    /\ \E ty \in RoundTripTypes : \E h \in HostVals(ty) :
           Finish("into", <<ty, h>>, Ret(IntoVal(ty, h)))

\* ... and the value it made converted back at the same type
CallFromOfInto ==
    /\ pc = "done"
    /\ op = "into"
    /\ Finish("into_from", args, FromVal(args[1], res[2]))

\* T::from(v) for any value v
CallFrom ==
    /\ pc = "idle"
    /\ \E ty \in CoerceTypes : \E v \in MixedVals :
           Finish("from", <<ty, v>>, FromVal(ty, v))

\* map: load_args!, then the iterator chain is set up.
CallMap ==
    /\ pc = "idle"
    /\ \E a \in MapArgs :
        LET la == load_args(a, <<TyVal, TyVec(TyVal)>>, <<>>)
        IN  /\ op' = "map"
            /\ args' = a
            /\ IF IsPanic(la)
               THEN /\ res' = la
                    /\ pc' = "panicked"
                    /\ UNCHANGED mapVars
               ELSE /\ res' = NoResult
                    /\ pc' = "map"
                    /\ fn_val' = la[2][1]
                    /\ xs' = la[2][2]
                    /\ idx' = 0
                    /\ out' = <<>>
                    /\ applied' = <<>>
    /\ UNCHANGED tables

\* A variant of the collection that goes on after a failed application,
\* dropping the failed element.
MapApplyKeepsGoing ==
    /\ pc = "map"
    /\ idx < Len(xs)
    /\ \E r \in ApplyOutcomes(fn_val, xs[idx + 1]) :
        /\ idx' = idx + 1
        /\ applied' = Append(applied, <<idx + 1, r>>)
        /\ out' = IF IsErr(r) THEN out ELSE Append(out, r[2])
        /\ UNCHANGED <<res, pc>>
    /\ UNCHANGED <<tables, op, args, fn_val, xs>>

\* map: collect() pulls the next element through the closure; an Err ends
\* the collection and `?` returns it.
MapApply ==
    /\ pc = "map"
    /\ idx < Len(xs)
    /\ \E r \in ApplyOutcomes(fn_val, xs[idx + 1]) :
        /\ idx' = idx + 1
        /\ applied' = Append(applied, <<idx + 1, r>>)
        /\ IF IsErr(r)
           THEN /\ res' = r
                /\ pc' = "done"
                /\ out' = <<>>
           ELSE /\ out' = Append(out, r[2])
                /\ UNCHANGED <<res, pc>>
    /\ UNCHANGED <<tables, op, args, fn_val, xs>>

\* A variant of the end of the collection that returns the results last to
\* first.
MapCollectReversed ==
    /\ pc = "map"
    /\ idx = Len(xs)
    /\ res' = ok(TyVec(TyVal), [k \in 1..Len(out) |-> out[Len(out) + 1 - k]])
    /\ pc' = "done"
    /\ UNCHANGED <<tables, op, args, mapVars>>

\* map: the iterator is exhausted; ok() wraps the collected Vec<Val>.
MapCollect ==
    /\ pc = "map"
    /\ idx = Len(xs)
    /\ res' = ok(TyVec(TyVal), out)
    /\ pc' = "done"
    /\ UNCHANGED <<tables, op, args, mapVars>>

\* The caller takes the result; the next call starts afresh.
Return ==
    /\ pc = "done"
    /\ op' = ""
    /\ args' = <<>>
    /\ res' = NoResult
    /\ pc' = "idle"
    /\ fn_val' = <<>>
    /\ xs' = <<>>
    /\ idx' = 0
    /\ out' = <<>>
    /\ applied' = <<>>
    /\ UNCHANGED tables

Next ==
    \/ ValOfPrim
    \/ FnOfPrim
    \/ CallAdd
    \/ CallMul
    \/ CallSum
    \/ CallInto
    \/ CallFromOfInto
    \/ CallFrom
    \/ CallMap
    \/ MapApply
    \/ MapCollect
    \/ Return

Spec == Init /\ [][Next]_vars

\* --------------------------------------------------------------- claims

\* The positions of the apply log that hold a failure.
FailedAt == {k \in 1..Len(applied) : IsErr(applied[k][2])}

\* C1: map short-circuits.  apply is invoked on the elements in increasing
\* index order, at most once each; the first failing application is the
\* last one made, map then ends with exactly that failure and with no
\* result list, and no later element is ever applied.
MapShortCircuits ==
    (op = "map" /\ pc \in {"map", "done"}) =>
        /\ Len(applied) <= Len(xs)
        /\ \A k \in 1..Len(applied) : applied[k][1] = k
        /\ \A k \in FailedAt :
              /\ k = Len(applied)
              /\ pc = "done"
              /\ res = applied[k][2]
              /\ ~IsOk(res)
        /\ (pc = "done" /\ IsErr(res)) => FailedAt # {}

\* C1 witness: apply failed on the second of three elements; map is over,
\* the failure is its result and the third element was never applied.
MapFailedOnSecondOfThree ==
    /\ op = "map"
    /\ pc = "done"
    /\ Len(xs) = 3
    /\ Len(applied) = 2
    /\ IsOk(applied[1][2])
    /\ IsErr(applied[2][2])
    /\ res = applied[2][2]

\* C2: when every application succeeds, map applies f to the elements in
\* increasing index order, once each, and returns the Dom(List) of the same
\* length whose i-th element is the result of apply(f, xs[i]); the empty
\* list gives the empty list without any call of apply; doubling [1, 2, 3]
\* gives [2, 4, 6].
MapCollectsInOrder ==
    (op = "map" /\ pc = "done" /\ FailedAt = {}) =>
        /\ fn_val = args[1]
        /\ xs = args[2][3]
        /\ Len(applied) = Len(xs)
        /\ \A i \in 1..Len(xs) :
              /\ applied[i][1] = i
              /\ applied[i][2] \in ApplyOutcomes(fn_val, xs[i])
        /\ res = Ok(DomList([i \in 1..Len(xs) |-> applied[i][2][2]]))
        /\ (xs = <<>> => applied = <<>> /\ res = Ok(DomList(<<>>)))
        /\ (args = <<LamClosure("double"),
                     DomList(<<DomInt(1), DomInt(2), DomInt(3)>>)>>
               => res = Ok(DomList(<<DomInt(2), DomInt(4), DomInt(6)>>)))

\* C2 witness: map has doubled [1, 2, 3].
MapDoubledOneTwoThree ==
    /\ op = "map"
    /\ pc = "done"
    /\ args = <<LamClosure("double"), DomList(<<DomInt(1), DomInt(2), DomInt(3)>>)>>
    /\ res = Ok(DomList(<<DomInt(2), DomInt(4), DomInt(6)>>))

\* Text helpers for the resolver's claims.
AllDigits(p) == p # <<>> /\ \A k \in 1..Len(p) : p[k] \in Digits

RECURSIVE StripZeros(_)
StripZeros(p) ==
    IF Len(p) > 1 /\ Head(p) = "0" THEN StripZeros(Tail(p)) ELSE p

RemoveWs(p) == SelectSeq(p, LAMBDA c : c \notin JsonWhitespace)

IntsOf(l) == [k \in 1..Len(l) |-> l[k][3]]

Sym42 == <<"4", "2">>
SymList123 == <<"[", "1", ",", "2", ",", "3", "]">>
SymMap == <<"m", "a", "p">>
SymSum == <<"s", "u", "m">>

\* C3: val_of_prim applies its rules in order.  A registered symbol gives a
\* copy of the registered value.  Otherwise the decimal text of an i32
\* n >= 0 gives Dom(Int(n)), and a resolved integer is the one the text
\* denotes; the JSON text of a list of i32 is resolved, and a resolved list
\* is a Dom(List) of Dom(Int)s that, written as JSON in its own order,
\* gives the text back.  "42" gives Dom(Int(42)), "[1,2,3]" gives [1, 2, 3].
ResolveRulesInOrder ==
    op = "val_of_prim" =>
        /\ args \in {<<"+">>, <<"*">>, SymMap, SymSum}
              => res = Some(BuildPRIMS[args])
        /\ \A n \in I32Samples :
              (n >= 0 /\ args = Decimal(n)) => res = Some(DomInt(n))
        /\ (AllDigits(args) /\ res # None)
              => /\ res[1] = "Some"
                 /\ IsDomInt(res[2])
                 /\ res[2][3] >= 0
                 /\ Decimal(res[2][3]) = StripZeros(args)
        /\ args \in ListTexts => res # None
        /\ (args # <<>> /\ Head(args) = "[" /\ res # None)
              => /\ res[1] = "Some"
                 /\ IsDomList(res[2])
                 /\ \A k \in 1..Len(res[2][3]) : IsDomInt(res[2][3][k])
                 /\ RenderList(IntsOf(res[2][3])) = RemoveWs(args)
        /\ args = Sym42 => res = Some(DomInt(42))
        /\ args = SymList123
              => res = Some(DomList(<<DomInt(1), DomInt(2), DomInt(3)>>))

\* C3 witness: "[1,2,3]" has been resolved to the list [1, 2, 3].
ResolvedList123 ==
    /\ op = "val_of_prim"
    /\ args = SymList123
    /\ res = Some(DomList(<<DomInt(1), DomInt(2), DomInt(3)>>))

\* C4: val_of_prim is total: it never panics, and a symbol that is neither
\* registered nor entirely a literal - the empty symbol, "foo", "[1,2",
\* "[[1]]", "12a", "2147483648" - gives None.
ResolveIsTotal ==
    op = "val_of_prim" =>
        /\ ~IsPanic(res)
        /\ args \in { <<>>,
                      <<"f", "o", "o">>,
                      <<"[", "1", ",", "2">>,
                      <<"[", "[", "1", "]", "]">>,
                      <<"1", "2", "a">>,
                      <<"2", "1", "4", "7", "4", "8", "3", "6", "4", "8">> }
              => res = None

\* C5: add and mul wrap: for all i32 x and y, add gives Ok(Int(x + y
\* wrapped)) and mul gives Ok(Int(x * y wrapped)); no pair of integers
\* makes either fail or abort; add(2147483647, 1) = -2147483648,
\* add(1, 2) = 3, mul(2, 3) = 6.
AddMulWrapAround ==
    (op \in {"add", "mul"} /\ IsDomInt(args[1]) /\ IsDomInt(args[2])) =>
        /\ op = "add" => res = Ok(DomInt(WrappingAdd(args[1][3], args[2][3])))
        /\ op = "mul" => res = Ok(DomInt(WrappingMul(args[1][3], args[2][3])))
        /\ (op = "add" /\ args = <<DomInt(I32Max), DomInt(1)>>)
              => res = Ok(DomInt(I32Min))
        /\ (op = "add" /\ args = <<DomInt(1), DomInt(2)>>) => res = Ok(DomInt(3))
        /\ (op = "mul" /\ args = <<DomInt(2), DomInt(3)>>) => res = Ok(DomInt(6))

AllDomInt(l) == \A k \in 1..Len(l) : IsDomInt(l[k])

\* C6: sum is the left fold with add's operator seeded at 0: sum([]) is
\* Int(0), and sum(xs ++ [y]) is add(sum(xs), y), an overflow on the way
\* ending sum the way it ends add; sum([1, 2, 3]) = 6.
SumIsFoldOfAdd ==
    (op = "sum" /\ IsDomList(args[1]) /\ AllDomInt(args[1][3])) =>
        LET l == args[1][3]
            n == Len(l)
            front == sum(<<DomList(SubSeq(l, 1, n - 1))>>)
        IN  /\ n = 0 => res = Ok(DomInt(0))
            /\ n > 0 => res = (IF IsOk(front) THEN add(<<front[2], l[n]>>)
                                ELSE front)
            /\ l = <<DomInt(1), DomInt(2), DomInt(3)>> => res = Ok(DomInt(6))

\* C6 witness: sum has folded a list whose running total overflows and
\* comes back: [2147483647, 1, -1].
SumFoldedAcrossOverflow ==
    /\ op = "sum"
    /\ args = <<DomList(<<DomInt(I32Max), DomInt(1), DomInt(-1)>>)>>
    /\ res = Ok(DomInt(I32Max))

\* C7: wrapping a host value and unwrapping it at the same type gives the
\* value back, for i32, Vec<i32> and Vec<Vec<i32>>, the empty sequence
\* included; the wrapped list has the length of the sequence.
CoercionRoundTrip ==
    /\ op = "into_from" => res = Ret(args[2])
    /\ (op = "into" /\ args[1] # TyI32)
          => IsDomList(res[2]) /\ Len(res[2][3]) = Len(args[2])

\* C7 witness: a nested sequence with an empty and a two-element member
\* has made the round trip.
NestedRoundTripDone ==
    /\ op = "into_from"
    /\ args = <<TyVec(TyVec(TyI32)), << <<>>, <<I32Min, I32Max>> >> >>
    /\ res = Ret(<< <<>>, <<I32Min, I32Max>> >>)

\* The shape a host type asks of a value.
RECURSIVE ShapeMatches(_, _)
ShapeMatches(ty, v) ==
    IF ty = TyI32 THEN IsDomInt(v)
    ELSE IF ty = TyVal THEN TRUE
    ELSE IsDomList(v) /\ \A k \in 1..Len(v[3]) : ShapeMatches(ty[2], v[3][k])

TypeMismatches ==
    {Panic("from_val_to_i32: not an int"), Panic("from_val_to_vec: not a list")}

\* C8: unwrapping a value whose shape does not match the host type ends in
\* the type-mismatch panic and yields no host value - a list or a function
\* as an integer, an integer or a function as a sequence, a list with a
\* non-integer element at any position as a sequence of integers; add, mul
\* and sum given such an argument end in that panic, with neither Ok nor
\* Err.
MismatchIsFatal ==
    /\ op = "from" =>
          IF ShapeMatches(args[1], args[2]) THEN res[1] = "ret"
          ELSE res \in TypeMismatches
    /\ (op \in {"add", "mul"} /\ ~(IsDomInt(args[1]) /\ IsDomInt(args[2])))
          => res = Panic("from_val_to_i32: not an int")
    /\ (op = "sum" /\ ~ShapeMatches(TyVec(TyI32), args[1]))
          => res \in TypeMismatches

\* C8 witness: a list whose second element is a function was asked for as
\* a sequence of integers, and the conversion panicked.
MismatchAtSecondElement ==
    /\ op = "from"
    /\ args = <<TyVec(TyI32), DomList(<<DomInt(I32Max), LamClosure("double")>>)>>
    /\ res = Panic("from_val_to_i32: not an int")
    /\ pc = "panicked"

\* C9: fn_of_prim is a lookup in the function table and nothing else: a
\* callable for "+", "*", "map" and "sum" (add, mul, map, sum, of arities
\* 2, 2, 2, 1), None for every other symbol, literals such as "42" and
\* "[1,2,3]" included; no call changes the table.
FnLookupIsClosed ==
    /\ FUNCS = (<<"+">> :> "add" @@ <<"*">> :> "mul"
                  @@ SymMap :> "map" @@ SymSum :> "sum")
    /\ PRIMS = (<<"+">> :> PrimFun(<<"+">>, 2) @@ <<"*">> :> PrimFun(<<"*">>, 2)
                  @@ SymMap :> PrimFun(SymMap, 2) @@ SymSum :> PrimFun(SymSum, 1))
    /\ op = "fn_of_prim" =>
          res = (IF args = <<"+">> THEN Some("add")
                 ELSE IF args = <<"*">> THEN Some("mul")
                 ELSE IF args = SymMap THEN Some("map")
                 ELSE IF args = SymSum THEN Some("sum")
                 ELSE None)

\* C9 witness: fn_of_prim was asked for the literal "[1,2,3]", which
\* val_of_prim resolves, and answered None.
FnOfLiteralIsNone ==
    /\ op = "fn_of_prim"
    /\ args = SymList123
    /\ val_of_prim(args) # None
    /\ res = None

\* C10: val_of_prim accepts every signed decimal literal that fits in 32
\* bits: the text of any i32 n, "-5" and the like included, gives
\* Dom(Int(n)).
ResolveAcceptsSignedLiterals ==
    op = "val_of_prim" =>
        \A n \in I32Samples : args = Decimal(n) => res = Some(DomInt(n))

=============================================================================
